---------------------------- MODULE Spec2Model ----------------------------
(***************************************************************************)
(* Model of msra::dbn::randomordering                                      *)
(* (src/DataReader/UCIReader/minibatchsourcehelpers.h): the windowed       *)
(* random permutation store (resize / operator() / CurrentSeed) and its    *)
(* range query bounds().                                                   *)
(*                                                                         *)
(* Integer widths are scaled down so that the two failure tests of         *)
(* operator() are reachable with explicit maps: size_t has SizeBits bits,  *)
(* INDEXTYPE (unsigned int) has IndexBits bits and RAND_MAX is 2, which    *)
(* keeps the order RAND_MAX*RAND_MAX < 2^IndexBits < 2^SizeBits of the     *)
(* original build (32767^2 < 2^32 < 2^64).                                 *)
(***************************************************************************)
EXTENDS Integers, FiniteSets, Sequences, TLC

\* ---------------------------------------------------------------- bounds
\* largest len handed to resize (one more than INDEXTYPE can index)
MaxLen == 9
\* largest p_randomizationrange handed to resize
MaxWindow == 5
\* seeds 0 .. NumSeeds-1 are requested, and the sentinel (size_t) -1
NumSeeds == 2
\* largest corpus of the maps enumerated for the bounds() query
MaxCorpus == 4

\* ------------------------------------------------------ program constants
\* width of size_t (scaled)
SizeBits == 4
\* width of INDEXTYPE = unsigned int (scaled)
IndexBits == 3
\* RAND_MAX of the C runtime (scaled)
RAND_MAX == 2
\* for (int tries = 0; tries < 5; tries++)
MaxTries == 5
\* const static size_t randomizeDisable=0
randomizeDisable == 0

VARIABLES
    map,                 \* std::vector<INDEXTYPE> map, a function on 0..size-1
    currentseed,         \* size_t currentseed
    randomizationrange,  \* size_t randomizationrange
    holdrand,            \* state of the C runtime generator behind ::rand()
    outcome,             \* how the last call ended / where the current one is
    seed,                \* argument of the operator() call in progress or last made
    t,                   \* outer loop index of the generation loop
    tries,               \* inner loop index of the generation loop
    retries,             \* size_t retries (diagnostic counter)
    draws,               \* history: calls of rand(begin,end) made by the last operator()
    accepted,            \* history: the last draw was accepted and swapped
    firstGet,            \* history: the operator() call is the first since resize
    perm,                \* a map on [0, N) the caller of bounds() holds
    query,               \* history: arguments <<ts, te>> of the last bounds() call
    answer               \* history: pair returned by the last bounds() call

vars == <<map, currentseed, randomizationrange, holdrand, outcome, seed, t, tries,
          retries, draws, accepted, firstGet, perm, query, answer>>

\* -------------------------------------------------------------- integers
Max(a, b) == IF a >= b THEN a ELSE b
Min(a, b) == IF a <= b THEN a ELSE b

\* conversion to size_t
ToSizeT(x) == x % (2 ^ SizeBits)
\* (INDEXTYPE) x and (unsigned int) x
ToIndexType(x) == x % (2 ^ IndexBits)
\* (size_t) -1
SIZE_MAX == ToSizeT(0 - 1)

\* map.size()
Size(m) == Cardinality(DOMAIN m)
EmptyMap == [i \in {} |-> 0]

\* randomizationrange/2
Half(W) == W \div 2

\* faulty variant of IdentityMap: the old contents are kept
IdentityKeep(n) == map
\* foreach_index (t, map) map[t] = (INDEXTYPE) t;
IdentityMap(n) == [i \in 0 .. n - 1 |-> ToIndexType(i)]

\* std::vector::resize: keeps the common prefix, value-initialises the rest
VectorResize(m, len) == [i \in 0 .. len - 1 |-> IF i < Size(m) THEN m[i] ELSE 0]

\* faulty variant of Swap: an assignment, which loses map[t]
SwapLossy(m, i, j) == [m EXCEPT ![i] = m[j]]
\* ::swap (map[t], map[trand])
Swap(m, i, j) == [m EXCEPT ![i] = m[j], ![j] = m[i]]

\* window of position t (lines 88-89)
WindowBegin(pos, W) == Max(pos, Half(W)) - Half(W)
WindowEnd(pos, W, n) == Min(pos + Half(W), n)

\* faulty variant of RangeCondition: only map[t] is tested, not map[trand]
RangeConditionHalf(m, pos, trand, W) ==
    /\ trand <= m[pos] + Half(W)
    /\ m[pos] < trand + Half(W)
\* the range condition of the swap (lines 94-95), on the pre-swap values
RangeCondition(m, pos, trand, W) ==
    /\ trand <= m[pos] + Half(W)
    /\ m[pos] < trand + Half(W)
    /\ pos <= m[trand] + Half(W)
    /\ m[trand] < pos + Half(W)

\* the window condition asserted at line 107
WindowCondition(m, W) ==
    \A i \in DOMAIN m : i <= m[i] + Half(W) /\ m[i] < i + Half(W)

\* ------------------------------------------------------ C runtime generator
\* ::srand and ::rand are the C runtime's, not this file's: a linear congruential
\* generator stands for them, whose values are a function of the seed alone.
\* (The two ::rand() calls of line 37 are taken left to right.)
\* srand ((unsigned int) seed)
Srand(s) == ToIndexType(s)
\* one step of the generator state behind ::rand()
RandStep(h) == (5 * h + 3) % (2 ^ SizeBits)
\* the value ::rand() returns from the stepped state, in 0 .. RAND_MAX
RandValue(h) == (h \div 2) % (RAND_MAX + 1)

\* rand (begin, end) of line 35, from the two ::rand() values r1, r2
RandRange(begin, end, r1, r2) == begin + (ToSizeT(r1 * RAND_MAX + r2) % (end - begin))

\* ------------------------------------------------------------------ inputs
Lens == 0 .. MaxLen
Windows == 0 .. MaxWindow
Seeds == (0 .. NumSeeds - 1) \cup {SIZE_MAX}

Idle == outcome \notin {"running", "crashed"}

\* ------------------------------------------------------------------- state
\* randomordering() { invalidate(); randomizationrange = randomizeDisable; }
Init ==
    /\ map = EmptyMap
    /\ currentseed = SIZE_MAX
    /\ randomizationrange = randomizeDisable
    /\ holdrand = 1
    /\ outcome = "constructed"
    /\ seed = 0
    /\ t = 0
    /\ tries = 0
    /\ retries = 0
    /\ draws = 0
    /\ accepted = FALSE
    /\ firstGet = FALSE
    /\ perm = EmptyMap
    /\ query = <<0, 0>>
    /\ answer = <<0, 0>>

\* faulty variant of invalidate: the cached seed is kept
invalidateNot == currentseed
\* void invalidate() { currentseed = (size_t) -1; }: the value it stores
invalidate == SIZE_MAX

\* void resize (size_t len, size_t p_randomizationrange)
Resize(len, W) ==
    /\ Idle
    /\ randomizationrange' = W
    /\ map' = IF len > 0 THEN VectorResize(map, len) ELSE map
    /\ currentseed' = invalidate
    /\ outcome' = "resized"
    /\ draws' = 0
    /\ accepted' = FALSE
    /\ firstGet' = FALSE
    /\ UNCHANGED <<holdrand, seed, t, tries, retries, perm, query, answer>>

\* for (int tries = 0; tries < 5; tries++) { ... break; ... } inside foreach_index (t, map):
\* the loop indices <<t, tries>> after an iteration that did (ok) or did not swap
LoopAdvance(ok, pos, k) ==
    IF ok \/ k + 1 >= MaxTries THEN <<pos + 1, 0>> ELSE <<pos, k + 1>>

\* one iteration of the inner loop (lines 85-102) on map m at indices <<pos, k>>,
\* with r1, r2 the two values ::rand() returns inside rand (tbegin, tend).
\* With an empty window (tend = tbegin) rand() divides by zero; if that yields a
\* value at all, no trand passes the first two tests of the range condition
\* (trand <= m[pos] < trand), so m[trand] is not read and nothing is swapped.
Iteration(m, pos, k, r1, r2, W) ==
    LET tbegin == WindowBegin(pos, W)
        tend == WindowEnd(pos, W, Size(m))
        defined == tend > tbegin
        trand == IF defined THEN RandRange(tbegin, tend, r1, r2) ELSE pos
        ok == defined /\ RangeCondition(m, pos, trand, W)
    IN  [defined |-> defined,
         trand |-> trand,
         ok |-> ok,
         map |-> IF ok THEN Swap(m, pos, trand) ELSE m,
         next |-> LoopAdvance(ok, pos, k)]

\* test for numeric overflow: map.size()-1 != (INDEXTYPE) (map.size()-1), in size_t
IndexOverflow(n) == ToSizeT(n - 1) # ToIndexType(ToSizeT(n - 1))

\* const std::vector<INDEXTYPE> & operator() (size_t seed), lines 66-80 and the
\* cache-hit return of line 123
Get(s) ==
    LET n == Size(map)
    IN  /\ Idle
        /\ seed' = s
        /\ firstGet' = (outcome = "resized")
        /\ draws' = 0
        /\ accepted' = FALSE
        /\ UNCHANGED <<currentseed, randomizationrange, perm, query, answer>>
        /\ IF s # currentseed /\ randomizationrange # randomizeDisable
           THEN IF IndexOverflow(n)
                THEN /\ outcome' = "overflow"
                     /\ UNCHANGED <<map, holdrand, t, tries, retries>>
                ELSE /\ map' = IdentityMap(n)
                     /\ IF n > RAND_MAX * RAND_MAX
                        THEN /\ outcome' = "capacity"
                             /\ UNCHANGED <<holdrand, t, tries, retries>>
                        ELSE /\ outcome' = "running"
                             /\ holdrand' = Srand(s)
                             /\ retries' = 0
                             /\ t' = 0
                             /\ tries' = 0
           ELSE /\ outcome' = "hit"
                /\ UNCHANGED <<map, holdrand, t, tries, retries>>

\* one iteration of the retry loop with a non-empty window: ::rand() returns r1
\* and then r2 and leaves the generator in state h
DrawWith(r1, r2, h) ==
    LET it == Iteration(map, t, tries, r1, r2, randomizationrange)
    IN  /\ outcome = "running"
        /\ t < Size(map)
        /\ it.defined
        /\ map' = it.map
        /\ retries' = IF it.ok THEN retries ELSE retries + 1
        /\ t' = it.next[1]
        /\ tries' = it.next[2]
        /\ draws' = draws + 1
        /\ accepted' = it.ok
        /\ holdrand' = h
        /\ UNCHANGED <<currentseed, randomizationrange, outcome, seed, firstGet,
                       perm, query, answer>>

\* the draw as the C runtime makes it: two ::rand() calls from holdrand
Draw ==
    LET h1 == RandStep(holdrand)
        h2 == RandStep(h1)
    IN  DrawWith(RandValue(h1), RandValue(h2), h2)

\* the draw for an arbitrary generator: ::rand() returns any two values
DrawAny == \E r1, r2 \in 0 .. RAND_MAX : DrawWith(r1, r2, holdrand)

\* one iteration with an empty window: rand (t, t) computes randno % 0, which is
\* undefined: the process traps (or the assert of line 92 aborts it), or the
\* iteration goes on without a swap
DrawUndefined ==
    LET it == Iteration(map, t, tries, 0, 0, randomizationrange)
    IN  /\ outcome = "running"
        /\ t < Size(map)
        /\ ~ it.defined
        /\ draws' = draws + 1
        /\ accepted' = FALSE
        /\ holdrand' = RandStep(RandStep(holdrand))
        /\ UNCHANGED <<map, currentseed, randomizationrange, seed, firstGet, perm, query,
                       answer>>
        /\ \/ /\ outcome' = "crashed"
              /\ UNCHANGED <<t, tries, retries>>
           \/ /\ outcome' = "running"
              /\ retries' = retries + 1
              /\ t' = it.next[1]
              /\ tries' = it.next[2]

\* lines 105-123: the loop is over, the seed is cached and the map returned
Finish ==
    /\ outcome = "running"
    /\ t = Size(map)
    /\ currentseed' = seed
    /\ outcome' = "generated"
    /\ t' = 0
    /\ tries' = 0
    /\ retries' = 0
    /\ UNCHANGED <<map, randomizationrange, holdrand, seed, draws, accepted, firstGet,
                   perm, query, answer>>

\* the whole generation of lines 75-104 as a function of (n, W, seed): the retry
\* loop run from the identity with the generator seeded by srand
RECURSIVE GenLoop(_, _, _, _, _)
GenLoop(m, pos, k, h, W) ==
    IF pos >= Size(m)
    THEN m
    ELSE LET h1 == RandStep(h)
             h2 == RandStep(h1)
             it == Iteration(m, pos, k, RandValue(h1), RandValue(h2), W)
         IN  GenLoop(it.map, it.next[1], it.next[2], h2, W)

Generate(n, W, s) == GenLoop([i \in 0 .. n - 1 |-> i], 0, 0, Srand(s), W)

\* faulty variant of bounds: the upper end is not widened
boundsNarrow(ts, te) ==
    <<Max(ts, Half(randomizationrange)) - Half(randomizationrange),
      Min(te, Size(map))>>
\* faulty variant of bounds: widened by the whole range, not by half of it
boundsWide(ts, te) ==
    <<Max(ts, randomizationrange) - randomizationrange,
      Min(te + randomizationrange, Size(map))>>
\* std::pair<size_t,size_t> bounds (size_t ts, size_t te) const
bounds(ts, te) ==
    <<Max(ts, Half(randomizationrange)) - Half(randomizationrange),
      Min(te + Half(randomizationrange), Size(map))>>

\* a call of bounds (ts, te)
Bounds(ts, te) ==
    /\ Idle
    /\ query' = <<ts, te>>
    /\ answer' = bounds(ts, te)
    /\ outcome' = "bounds"
    /\ UNCHANGED <<map, currentseed, randomizationrange, holdrand, seed, t, tries,
                   retries, draws, accepted, firstGet, perm>>

\* size_t CurrentSeed()
CurrentSeed == currentseed

Next ==
    \/ \E len \in Lens, W \in Windows : Resize(len, W)
    \/ \E s \in Seeds : Get(s)
    \/ Draw
    \/ DrawUndefined
    \/ Finish

Spec == Init /\ [][Next]_vars

NextAny ==
    \/ \E len \in Lens, W \in Windows : Resize(len, W)
    \/ \E s \in Seeds : Get(s)
    \/ DrawAny
    \/ DrawUndefined
    \/ Finish

\* the store with a generator whose values are arbitrary
SpecAny == Init /\ [][NextAny]_vars

\* the store right after resize (N, W) on a new object, and any map on [0, N)
\* in the hands of the caller of bounds()
InitBounds ==
    \E N \in 1 .. MaxCorpus, W \in Windows :
        /\ map = VectorResize(EmptyMap, N)
        /\ currentseed = SIZE_MAX
        /\ randomizationrange = W
        /\ holdrand = 1
        /\ outcome = "resized"
        /\ seed = 0
        /\ t = 0
        /\ tries = 0
        /\ retries = 0
        /\ draws = 0
        /\ accepted = FALSE
        /\ firstGet = FALSE
        /\ perm \in [0 .. N - 1 -> 0 .. N - 1]
        /\ query = <<0, 0>>
        /\ answer = <<0, 0>>

NextBounds ==
    \E ts \in 0 .. MaxCorpus, te \in 0 .. MaxCorpus :
        /\ ts <= te
        /\ te <= Size(map)
        /\ Bounds(ts, te)

\* bounds() queried for every range 0 <= ts <= te <= N
SpecBounds == InitBounds /\ [][NextBounds]_vars

TypeOK == outcome \in {"constructed", "resized", "hit", "generated", "overflow",
                        "capacity", "running", "crashed", "bounds"}

\* operator() returned the map (from the cache or freshly generated)
Returned == outcome \in {"hit", "generated"}

\* every value of [0, N) appears exactly once in m
Bijection(m) ==
    \A v \in 0 .. Size(m) - 1 : Cardinality({i \in DOMAIN m : m[i] = v}) = 1

\* ---------------------------------------------------------------- claims

\* C1: with a window W # 0 and a seed other than the sentinel, the map a
\* successful operator() returns is a bijection on [0, N), whatever calls came
\* before and whatever values the generator returned.
C1_ReturnedMapIsBijection ==
    (Returned /\ randomizationrange # randomizeDisable /\ seed # SIZE_MAX)
        => (Size(map) >= 1 /\ Bijection(map))

\* C1 witness: a generated map of three or more entries that is not the identity
C1_Witness ==
    /\ outcome = "generated"
    /\ seed # SIZE_MAX
    /\ Size(map) >= 3
    /\ map # IdentityMap(Size(map))
    /\ Bijection(map)

\* C2: with W >= 2 the window condition t <= map[t] + W/2 and map[t] < t + W/2
\* holds at every position after the identity initialisation, after every
\* iteration of the retry loop (swap or rejected draw), when the map is
\* returned, and as long as a seed is cached, for arbitrary generator values.
C2_WindowConditionKept ==
    (/\ randomizationrange >= 2
     /\ \/ outcome \in {"running", "generated"}
        \/ currentseed # SIZE_MAX)
        => WindowCondition(map, randomizationrange)

\* C2 witness: generation has just given up on a position after MaxTries
\* rejected draws, on a map that earlier swaps changed
C2_Witness ==
    /\ outcome = "running"
    /\ randomizationrange >= 2
    /\ draws >= MaxTries
    /\ ~ accepted
    /\ tries = 0
    /\ t >= 1
    /\ map # IdentityMap(Size(map))
    /\ WindowCondition(map, randomizationrange)

\* C3 (as claimed): with W # 0 the map operator() returns is the one generated
\* from (N, W, seed) alone, for every seed, whatever calls came before.
C3_MapDependsOnlyOnArguments ==
    (Returned /\ randomizationrange # randomizeDisable)
        => map = Generate(Size(map), randomizationrange, seed)

\* C3 (amended): the same for every seed other than the sentinel (size_t) -1.
C3_MapDependsOnlyOnValidSeed ==
    (Returned /\ randomizationrange # randomizeDisable /\ seed # SIZE_MAX)
        => map = Generate(Size(map), randomizationrange, seed)

\* C3 witness: a cache hit (so the map was produced by an earlier call, with
\* other calls possibly in between) returning a map that is not the identity
C3_Witness ==
    /\ outcome = "hit"
    /\ randomizationrange # randomizeDisable
    /\ seed # SIZE_MAX
    /\ map # IdentityMap(Size(map))
    /\ map = Generate(Size(map), randomizationrange, seed)

\* C8: resize leaves the sentinel as current seed; the first operator() after
\* it, with W # 0 and a seed other than the sentinel, is never served from the
\* cache: it starts from the identity, and when it returns the map is the one
\* generated from (N, W, seed) and CurrentSeed() is that seed.
C8_ResizeInvalidates ==
    /\ outcome = "resized" => CurrentSeed = SIZE_MAX
    /\ (firstGet /\ randomizationrange # randomizeDisable /\ seed # SIZE_MAX)
         => /\ outcome # "hit"
            /\ (outcome = "running" /\ draws = 0)
                 => /\ map = [i \in 0 .. Size(map) - 1 |-> i]
                    /\ CurrentSeed = SIZE_MAX
            /\ outcome = "generated"
                 => /\ map = Generate(Size(map), randomizationrange, seed)
                    /\ CurrentSeed = seed

\* C8 witness: the first operator() after a resize has regenerated a map that is
\* not the identity
C8_Witness ==
    /\ firstGet
    /\ outcome = "generated"
    /\ seed # SIZE_MAX
    /\ CurrentSeed = seed
    /\ map # IdentityMap(Size(map))

\* C5: for 0 <= ts <= te <= N, bounds (ts, te) is <<max(ts - W/2, 0),
\* min(te + W/2, N)>>, and for every map that satisfies the window condition
\* for W the image of each t in [ts, te) lies in that interval.
C5_BoundsContainImages ==
    (outcome = "bounds" /\ WindowCondition(perm, randomizationrange))
        => LET ts == query[1]
               te == query[2]
               h == Half(randomizationrange)
           IN  /\ answer = <<Max(ts - h, 0), Min(te + h, Size(perm))>>
               /\ \A i \in ts .. te - 1 : answer[1] <= perm[i] /\ perm[i] < answer[2]

\* C5 witness: a map satisfying the window condition that moves a position of
\* the queried range onto the lower end of the interval, away from position 0
C5_Witness ==
    /\ outcome = "bounds"
    /\ WindowCondition(perm, randomizationrange)
    /\ query[1] >= 1
    /\ answer[2] < Size(perm)
    /\ \E i \in query[1] .. query[2] - 1 : perm[i] = answer[1] /\ perm[i] # i

\* the maps on [0, n) that satisfy the window condition for W
WindowedMaps(n, W) == {m \in [0 .. n - 1 -> 0 .. n - 1] : WindowCondition(m, W)}

\* the identity on [0, n) with position i sent to v
OneMoved(n, i, v) == [j \in 0 .. n - 1 |-> IF j = i THEN v ELSE j]

\* C6 (as claimed, and only for the non-empty ranges and the windows W >= 2 for
\* which maps satisfying the window condition exist): both ends of
\* bounds (ts, te) are attained, i.e. some map satisfying the window condition
\* sends a t of [ts, te) to tb, and some such map sends one to te' - 1.
C6_BothEndsAttained ==
    (outcome = "bounds" /\ randomizationrange >= 2 /\ query[1] < query[2])
        => /\ \E m \in WindowedMaps(Size(map), randomizationrange) :
                  \E i \in query[1] .. query[2] - 1 : m[i] = answer[1]
           /\ \E m \in WindowedMaps(Size(map), randomizationrange) :
                  \E i \in query[1] .. query[2] - 1 : m[i] = answer[2] - 1

\* C6 (amended): for a non-empty range and W >= 2 the lower end tb is attained,
\* the largest image any map satisfying the window condition gives a t of
\* [ts, te) is min(te + W/2 - 2, N - 1), which is attained, and it is the upper
\* end te' - 1 exactly when te + W/2 > N.
C6_LowerEndAttainedUpperEndLoose ==
    (outcome = "bounds" /\ randomizationrange >= 2 /\ query[1] < query[2])
        => LET ts == query[1]
               te == query[2]
               N == Size(map)
               W == randomizationrange
               top == Min(te + Half(W) - 2, N - 1)
           IN  /\ \E i \in ts .. te - 1 : WindowCondition(OneMoved(N, i, answer[1]), W)
               /\ \E i \in ts .. te - 1 : WindowCondition(OneMoved(N, i, top), W)
               /\ WindowCondition(perm, W) => \A i \in ts .. te - 1 : perm[i] <= top
               /\ (answer[2] - 1 = top) <=> (te + Half(W) > N)
               /\ answer[2] - 1 <= top + 1

\* C6 witness: a query whose upper end no map can attain, on a map that
\* attains the largest possible image
C6_Witness ==
    /\ outcome = "bounds"
    /\ randomizationrange >= 2
    /\ query[1] < query[2]
    /\ WindowCondition(perm, randomizationrange)
    /\ query[2] + Half(randomizationrange) <= Size(map)
    /\ \E i \in query[1] .. query[2] - 1 : perm[i] = answer[2] - 2 /\ perm[i] # i

\* C4 (as claimed): with W = 0 the view operator() returns has v[t] = t for
\* every t, for every seed and after any earlier calls.
C4_DisabledIsIdentity ==
    (Returned /\ randomizationrange = randomizeDisable)
        => \A i \in DOMAIN map : map[i] = i

\* C7 (as claimed): a corpus length too large for INDEXTYPE is refused by
\* resize, which leaves the store as it was: the store never holds such a
\* length, and operator() never has to refuse one.
C7_ResizeRefusesTooLarge ==
    /\ Size(map) >= 1 => ~ IndexOverflow(Size(map))
    /\ outcome = "overflow" => Size(map) = 0

\* C9 (as claimed, here for the windows W >= 2 alone): an operator() call that
\* fails with the capacity error has changed neither the map nor the current
\* seed.
C9_CapacityFailureChangesNothing ==
    [][(Idle /\ randomizationrange >= 2 /\ outcome' = "capacity")
           => (map' = map /\ currentseed' = currentseed)]_vars

\* C10 (as claimed): every draw of the generation leaves it running; an accepted
\* draw moves on to t+1; a rejected one leaves the map alone and moves on to t+1
\* after the fifth; no more than 5*N draws are made; and the call returns with
\* the seed cached.
C10_GenerationBoundedAndReturns ==
    [][/\ (outcome = "running" /\ draws' = draws + 1)
            => /\ outcome' = "running"
               /\ draws' <= MaxTries * Size(map)
               /\ accepted' => (t' = t + 1 /\ tries' = 0)
               /\ ~ accepted'
                    => /\ map' = map
                       /\ IF tries + 1 = MaxTries
                          THEN t' = t + 1 /\ tries' = 0
                          ELSE t' = t /\ tries' = tries + 1
       /\ (outcome = "running" /\ outcome' # "running" /\ draws' = draws)
            => (outcome' = "generated" /\ currentseed' = seed)]_vars

\* C11 (as claimed): whenever the generation is about to draw for a position t,
\* with any window size W # 0, the candidate window [lo, hi) of lines 88-89 is
\* non-empty and contains t, and whatever two values ::rand() returns, the draw
\* is defined and gives an r with lo <= r < hi, t <= r + W/2 and r < t + W/2
\* (the assert of line 92).
C11_WindowNonEmptyDrawDefined ==
    (outcome = "running" /\ t < Size(map) /\ randomizationrange # randomizeDisable)
        => LET W == randomizationrange
               lo == WindowBegin(t, W)
               hi == WindowEnd(t, W, Size(map))
           IN  /\ lo < hi
               /\ lo <= t
               /\ t < hi
               /\ \A r1, r2 \in 0 .. RAND_MAX :
                      LET it == Iteration(map, t, tries, r1, r2, W)
                      IN  /\ it.defined
                          /\ lo <= it.trand
                          /\ it.trand < hi
                          /\ t <= it.trand + Half(W)
                          /\ it.trand < t + Half(W)

=============================================================================
